---------------------------- MODULE Spec2Model ----------------------------
(***************************************************************************)
(* Model of the network-intel aggregation engine of my-ip:                 *)
(*   - lib/network-intel (src/unnamed/part_000): field normalizers,        *)
(*     mergeIntel, chooseBetterIsp, shouldStopEarly;                       *)
(*   - app/api/network-intel/route.ts: fetchProvider, runAggregation.      *)
(*                                                                         *)
(* A JavaScript string is a sequence of one-character strings.  null and   *)
(* undefined are the one-element sequences Null and Undef, whose element   *)
(* is not a character, so they differ from every string.  A JavaScript     *)
(* number (coordinates) is a tagged record, see Num / NaN / Infinity.      *)
(***************************************************************************)
EXTENDS Integers, Sequences, FiniteSets, Bags, TLC

(***************************************************************************)
(* JavaScript values                                                       *)
(***************************************************************************)
Null == <<"NULL">>
Undef == <<"UNDEFINED">>

Num(n) == [k |-> "number", v |-> n]
NaN == [k |-> "NaN", v |-> 0]
Infinity == [k |-> "Infinity", v |-> 0]
NullNum == [k |-> "null", v |-> 0]
UndefNum == [k |-> "undefined", v |-> 0]

\* !value for a string-or-null value: null, undefined and "" are falsy
Falsy(s) == s = Null \/ s = Undef \/ s = <<>>

\* value ?? null
OrNull(s) == IF s = Undef THEN Null ELSE s

(***************************************************************************)
(* String primitives: trim, toLowerCase, toUpperCase, split, includes      *)
(***************************************************************************)
WhiteSpace == {" ", "\t", "\n", "\r"}

\* s.trim(): the part of s from its first to its last non-blank character
Trim(s) ==
  LET keep == {i \in 1..Len(s) : s[i] \notin WhiteSpace}
  IN  IF keep = {} THEN <<>>
      ELSE SubSeq(s, CHOOSE i \in keep : \A j \in keep : i <= j,
                     CHOOSE i \in keep : \A j \in keep : i >= j)

UpperChars ==
  <<"A","B","C","D","E","F","G","H","I","J","K","L","M",
    "N","O","P","Q","R","S","T","U","V","W","X","Y","Z">>

LowerChars ==
  <<"a","b","c","d","e","f","g","h","i","j","k","l","m",
    "n","o","p","q","r","s","t","u","v","w","x","y","z">>

ToLowerChar(c) ==
  IF \E i \in 1..26 : UpperChars[i] = c
  THEN LowerChars[CHOOSE i \in 1..26 : UpperChars[i] = c]
  ELSE c

ToUpperChar(c) ==
  IF \E i \in 1..26 : LowerChars[i] = c
  THEN UpperChars[CHOOSE i \in 1..26 : LowerChars[i] = c]
  ELSE c

ToLowerCase(s) == [i \in 1..Len(s) |-> ToLowerChar(s[i])]
ToUpperCase(s) == [i \in 1..Len(s) |-> ToUpperChar(s[i])]

\* s.split(sep) for a one-character separator: the parts between the
\* occurrences of sep, the k-th part lying between the (k-1)-th and the k-th
Split(s, sep) ==
  LET at == {i \in 1..Len(s) : s[i] = sep}
      \* position of the k-th separator; 0 and Len(s)+1 bound the string
      pos(k) == IF k = 0 THEN 0
                ELSE IF k > Cardinality(at) THEN Len(s) + 1
                ELSE CHOOSE i \in at : Cardinality({j \in at : j < i}) = k - 1
  IN  [k \in 1..(Cardinality(at) + 1) |-> SubSeq(s, pos(k - 1) + 1, pos(k) - 1)]

DigitChars == <<"0","1","2","3","4","5","6","7","8","9">>
Digits == {DigitChars[i] : i \in 1..10}
HexLetters == {"a","b","c","d","e","f","A","B","C","D","E","F"}

DigitVal(c) == (CHOOSE i \in 1..10 : DigitChars[i] = c) - 1

\* Number(part) for a part made of digits only
RECURSIVE DigitsToNumber(_, _)
DigitsToNumber(s, n) ==
  IF n = 0 THEN 0
  ELSE 10 * DigitsToNumber(s, n - 1) + DigitVal(s[n])

(***************************************************************************)
(* Field normalizers                                                       *)
(***************************************************************************)
\* the Persian placeholder, one element per code unit
PersianUnspecified ==
  <<"U+0646","U+0627","U+0645","U+0634","U+062E","U+0635">>

GENERIC_TEXT_VALUES ==
  { <<"u","n","k","n","o","w","n">>,
    <<"n","/","a">>,
    <<"n","a">>,
    <<"n","o","n","e">>,
    <<"n","u","l","l">>,
    <<"u","n","d","e","f","i","n","e","d">>,
    <<"-">>,
    PersianUnspecified }

CountryCodes ==
  { <<"I","R">>, <<"U","S">>, <<"G","B">>, <<"D","E">>, <<"F","R">>,
    <<"T","R">>, <<"A","E">>, <<"I","Q">>, <<"R","U">>, <<"N","L">>,
    <<"C","A">>, <<"A","U">>, <<"J","P">>, <<"C","N">>, <<"I","N">> }

COUNTRY_CODE_TO_NAME ==
  [c \in CountryCodes |->
     CASE c = <<"I","R">> -> <<"I","r","a","n">>
       [] c = <<"U","S">> -> <<"U","n","i","t","e","d"," ","S","t","a","t","e","s">>
       [] c = <<"G","B">> -> <<"U","n","i","t","e","d"," ","K","i","n","g","d","o","m">>
       [] c = <<"D","E">> -> <<"G","e","r","m","a","n","y">>
       [] c = <<"F","R">> -> <<"F","r","a","n","c","e">>
       [] c = <<"T","R">> -> <<"T","u","r","k","e","y">>
       [] c = <<"A","E">> -> <<"U","n","i","t","e","d"," ","A","r","a","b"," ","E","m","i","r","a","t","e","s">>
       [] c = <<"I","Q">> -> <<"I","r","a","q">>
       [] c = <<"R","U">> -> <<"R","u","s","s","i","a">>
       [] c = <<"N","L">> -> <<"N","e","t","h","e","r","l","a","n","d","s">>
       [] c = <<"C","A">> -> <<"C","a","n","a","d","a">>
       [] c = <<"A","U">> -> <<"A","u","s","t","r","a","l","i","a">>
       [] c = <<"J","P">> -> <<"J","a","p","a","n">>
       [] c = <<"C","N">> -> <<"C","h","i","n","a">>
       [] c = <<"I","N">> -> <<"I","n","d","i","a">>]

parseCoordinate(value) ==
  IF value = UndefNum \/ value = NullNum THEN NullNum
  ELSE IF value.k = "number" THEN value
  ELSE NullNum

isValidIPv4(value) ==
  LET parts == Split(value, ".")
  IN  /\ Len(parts) = 4
      /\ \A i \in 1..4 :
           /\ parts[i] # <<>>
           /\ \A j \in 1..Len(parts[i]) : parts[i][j] \in Digits
           /\ DigitsToNumber(parts[i], Len(parts[i])) >= 0
           /\ DigitsToNumber(parts[i], Len(parts[i])) <= 255

isValidIPv6(value) ==
  /\ \E i \in 1..Len(value) : value[i] = ":"
  /\ value # <<>>
  /\ \A i \in 1..Len(value) : value[i] \in Digits \cup HexLetters \cup {":"}
  /\ ~ \E i \in 1..(Len(value) - 2) :
         value[i] = ":" /\ value[i + 1] = ":" /\ value[i + 2] = ":"
  /\ Len(Split(value, ":")) <= 8

detectIpFamily(value) ==
  IF Falsy(value) THEN "none"
  ELSE LET ip == Trim(value)
       IN  IF ip = <<>> THEN "none"
           ELSE IF isValidIPv4(ip) THEN "IPv4"
           ELSE IF isValidIPv6(ip) THEN "IPv6"
           ELSE "none"

isMeaningfulText(value) ==
  IF Falsy(value) THEN FALSE
  ELSE LET trimmed == Trim(value)
       IN  IF trimmed = <<>> THEN FALSE
           ELSE ToLowerCase(trimmed) \notin GENERIC_TEXT_VALUES

\* a two-letter code upper-cased and left unexpanded
normalizeCountry_noLookup(value) ==
  IF Falsy(value) THEN Null
  ELSE LET trimmed == Trim(value)
       IN  IF trimmed = <<>> THEN Null
           ELSE IF Len(trimmed) = 2 THEN ToUpperCase(trimmed)
           ELSE trimmed

normalizeCountry(value) ==
  IF Falsy(value) THEN Null
  ELSE LET trimmed == Trim(value)
           upper == ToUpperCase(trimmed)
       IN  IF trimmed = <<>> THEN Null
           ELSE IF Len(upper) = 2 /\ \A i \in 1..2 : \E j \in 1..26 : UpperChars[j] = upper[i]
                THEN IF upper \in CountryCodes THEN COUNTRY_CODE_TO_NAME[upper] ELSE upper
                ELSE trimmed


(***************************************************************************)
(* Intel record and merge policy                                           *)
(***************************************************************************)
EMPTY_INTEL ==
  [ipv4 |-> Null, ipv6 |-> Null, isp |-> Null, city |-> Null,
   country |-> Null, lat |-> NullNum, lon |-> NullNum]

\* the partial observation {} : every key absent
EmptyPartial ==
  [ipv4 |-> Undef, ipv6 |-> Undef, isp |-> Undef, city |-> Undef,
   country |-> Undef, lat |-> UndefNum, lon |-> UndefNum]

\* value?.trim()
OptTrim(s) == IF s = Null \/ s = Undef THEN Undef ELSE Trim(s)

\* a || b || null
OrElse(a, b) == IF ~Falsy(a) THEN a ELSE IF ~Falsy(b) THEN b ELSE Null

\* chooseBetterIsp taking whatever non-empty name comes last
chooseBetterIsp_lastNonEmpty(current, next) ==
  OrElse(OptTrim(next), OptTrim(current))

\* chooseBetterIsp returning the incoming name as received, not trimmed
chooseBetterIsp_untrimmedNext(current, next) ==
  LET currentOk == isMeaningfulText(current)
      nextOk == isMeaningfulText(next)
  IN  IF ~currentOk /\ nextOk THEN next
      ELSE IF currentOk /\ ~nextOk THEN OrNull(OptTrim(current))
      ELSE IF currentOk /\ nextOk
           THEN IF Len(Trim(next)) > Len(Trim(current))
                THEN next
                ELSE OrNull(OptTrim(current))
           ELSE OrElse(OptTrim(current), OptTrim(next))

\* chooseBetterIsp with >= for > : a tie takes the incoming name
chooseBetterIsp_tieTakesNext(current, next) ==
  LET currentOk == isMeaningfulText(current)
      nextOk == isMeaningfulText(next)
  IN  IF ~currentOk /\ nextOk THEN OrNull(OptTrim(next))
      ELSE IF currentOk /\ ~nextOk THEN OrNull(OptTrim(current))
      ELSE IF currentOk /\ nextOk
           THEN IF Len(Trim(next)) >= Len(Trim(current))
                THEN OrNull(OptTrim(next))
                ELSE OrNull(OptTrim(current))
           ELSE OrElse(OptTrim(current), OptTrim(next))

chooseBetterIsp(current, next) ==
  LET currentOk == isMeaningfulText(current)
      nextOk == isMeaningfulText(next)
  IN  IF ~currentOk /\ nextOk THEN OrNull(OptTrim(next))
      ELSE IF currentOk /\ ~nextOk THEN OrNull(OptTrim(current))
      ELSE IF currentOk /\ nextOk
           THEN IF Len(Trim(next)) > Len(Trim(current))
                THEN OrNull(OptTrim(next))
                ELSE OrNull(OptTrim(current))
           ELSE OrElse(OptTrim(current), OptTrim(next))

\* mergeIntel with one statement changed: "ipv4" drops the test !next.ipv4,
\* "family" accepts any valid address under either key, "coords" adopts each
\* coordinate on its own
MergeVariant(primary, incomingPartial, change) ==
  LET normalizedCountry == normalizeCountry(incomingPartial.country)
      lat == parseCoordinate(incomingPartial.lat)
      lon == parseCoordinate(incomingPartial.lon)
      adoptPair == /\ primary.lat = NullNum /\ primary.lon = NullNum
                   /\ lat # NullNum /\ lon # NullNum
      familyOk(v, fam) == IF change = "family" THEN detectIpFamily(v) # "none"
                          ELSE detectIpFamily(v) = fam
  IN  [ipv4 |->
         IF (change = "ipv4" \/ Falsy(primary.ipv4)) /\ ~Falsy(incomingPartial.ipv4)
            /\ familyOk(incomingPartial.ipv4, "IPv4")
         THEN Trim(incomingPartial.ipv4)
         ELSE primary.ipv4,
       ipv6 |->
         IF Falsy(primary.ipv6) /\ ~Falsy(incomingPartial.ipv6)
            /\ familyOk(incomingPartial.ipv6, "IPv6")
         THEN Trim(incomingPartial.ipv6)
         ELSE primary.ipv6,
       city |->
         IF Falsy(primary.city) /\ isMeaningfulText(incomingPartial.city)
         THEN OrNull(OptTrim(incomingPartial.city))
         ELSE primary.city,
       country |->
         IF Falsy(primary.country) /\ ~Falsy(normalizedCountry)
         THEN normalizedCountry
         ELSE primary.country,
       isp |-> chooseBetterIsp(primary.isp, OrNull(incomingPartial.isp)),
       lat |-> IF change = "coords"
               THEN (IF primary.lat = NullNum /\ lat # NullNum THEN lat ELSE primary.lat)
               ELSE (IF adoptPair THEN lat ELSE primary.lat),
       lon |-> IF change = "coords"
               THEN (IF primary.lon = NullNum /\ lon # NullNum THEN lon ELSE primary.lon)
               ELSE (IF adoptPair THEN lon ELSE primary.lon)]

mergeIntel_overwriteIpv4(primary, incomingPartial) ==
  MergeVariant(primary, incomingPartial, "ipv4")

mergeIntel_anyFamily(primary, incomingPartial) ==
  MergeVariant(primary, incomingPartial, "family")

mergeIntel_singleCoordinate(primary, incomingPartial) ==
  MergeVariant(primary, incomingPartial, "coords")

\* every statement of mergeIntel reads and writes one field of next (the
\* coordinates: the pair), so next is built field by field
mergeIntel(primary, incomingPartial) ==
  LET normalizedCountry == normalizeCountry(incomingPartial.country)
      lat == parseCoordinate(incomingPartial.lat)
      lon == parseCoordinate(incomingPartial.lon)
      adoptPair == /\ primary.lat = NullNum /\ primary.lon = NullNum
                   /\ lat # NullNum /\ lon # NullNum
  IN  [ipv4 |->
         IF Falsy(primary.ipv4) /\ ~Falsy(incomingPartial.ipv4)
            /\ detectIpFamily(incomingPartial.ipv4) = "IPv4"
         THEN Trim(incomingPartial.ipv4)
         ELSE primary.ipv4,
       ipv6 |->
         IF Falsy(primary.ipv6) /\ ~Falsy(incomingPartial.ipv6)
            /\ detectIpFamily(incomingPartial.ipv6) = "IPv6"
         THEN Trim(incomingPartial.ipv6)
         ELSE primary.ipv6,
       city |->
         IF Falsy(primary.city) /\ isMeaningfulText(incomingPartial.city)
         THEN OrNull(OptTrim(incomingPartial.city))
         ELSE primary.city,
       country |->
         IF Falsy(primary.country) /\ ~Falsy(normalizedCountry)
         THEN normalizedCountry
         ELSE primary.country,
       isp |-> chooseBetterIsp(primary.isp, OrNull(incomingPartial.isp)),
       lat |-> IF adoptPair THEN lat ELSE primary.lat,
       lon |-> IF adoptPair THEN lon ELSE primary.lon]

\* the test with both families required
hasAtLeastOneIp_bothFamilies(data) == ~Falsy(data.ipv4) /\ ~Falsy(data.ipv6)

hasAtLeastOneIp(data) == ~Falsy(data.ipv4) \/ ~Falsy(data.ipv6)

\* shouldStopEarly without the hasGeo conjunct
shouldStopEarly_bothIpsOnly(data) ==
  ~Falsy(data.ipv4) /\ ~Falsy(data.ipv6)

shouldStopEarly(data) ==
  LET hasBothIps == ~Falsy(data.ipv4) /\ ~Falsy(data.ipv6)
      hasGeo == isMeaningfulText(data.isp) \/ isMeaningfulText(data.country)
  IN  hasBothIps /\ hasGeo

(***************************************************************************)
(* Sample strings the observations are built from                          *)
(***************************************************************************)
V4PaddedA == <<" ","1",".","2",".","3",".","4","\n">>
V4B == <<"2","5","5",".","0",".","0",".","9">>
V4Octet256 == <<"2","5","6",".","1",".","1",".","1">>
V4ThreeParts == <<"1",".","2",".","3">>
V6A == <<":",":","1">>
V6PaddedB == <<"a",":","B",":",":","2"," ">>
V6TripleColon == <<":",":",":","1">>
V6NineGroups == <<"1",":","2",":","3",":","4",":","5",":","6",":","7",":","8",":","9">>
V6NonHex == <<"g",":",":","1">>

Acme == <<"A","c","m","e">>
Beta == <<"B","e","t","a">>
AcmeTelecomPadded == <<" ","A","c","m","e"," ","T","e","l","e","c","o","m"," ">>
Unknown == <<"U","n","k","n","o","w","n">>
NAPadded == <<" ","N","/","A"," ">>
Blank == <<" "," ">>
BerlinPadded == <<" ","B","e","r","l","i","n"," ">>
Paris == <<"P","a","r","i","s">>
NoneText == <<"n","o","n","e">>
CodeDeLower == <<"d","e">>
CodeZZPadded == <<" ","z","Z">>
CodeNA == <<"n","a">>

Ipv4Samples ==
  {V4PaddedA, V4B, V4Octet256, V4ThreeParts, V6A, <<>>, Null}
Ipv6Samples ==
  {V6A, V6PaddedB, V6TripleColon, V6NineGroups, V6NonHex, V4B, Null}
IspSamples ==
  {Acme, Beta, AcmeTelecomPadded, Unknown, NAPadded, Blank, <<>>, Null}
CitySamples == {BerlinPadded, Paris, NoneText, Blank, Null}
CountrySamples == {CodeDeLower, CodeZZPadded, CodeNA, Unknown, Blank, Null}
LatSamples == {Num(0), Num(52), NaN, Infinity, NullNum, UndefNum}
LonSamples == {Num(13), NaN, NullNum}

\* observations that report one attribute, and some that report several
PartialSamples ==
  {[EmptyPartial EXCEPT !.ipv4 = x] : x \in Ipv4Samples}
  \cup {[EmptyPartial EXCEPT !.ipv6 = x] : x \in Ipv6Samples}
  \cup {[EmptyPartial EXCEPT !.isp = x] : x \in IspSamples}
  \cup {[EmptyPartial EXCEPT !.city = x] : x \in CitySamples}
  \cup {[EmptyPartial EXCEPT !.country = x] : x \in CountrySamples}
  \cup {[EmptyPartial EXCEPT !.lat = x, !.lon = y] : x \in LatSamples, y \in LonSamples}
  \cup {[ipv4 |-> V4B, ipv6 |-> V6A, isp |-> Acme, city |-> Paris,
         country |-> CodeDeLower, lat |-> Num(52), lon |-> Num(13)],
        [ipv4 |-> V6A, ipv6 |-> V4B, isp |-> Unknown, city |-> NoneText,
         country |-> Unknown, lat |-> Num(0), lon |-> Infinity]}

(***************************************************************************)
(* runAggregation                                                          *)
(***************************************************************************)
PROVIDER_TIMEOUT_MS == 3500
OVERALL_TIMEOUT_MS == 10000
CONCURRENCY_LIMIT == 6

\* delay of the overallTimeout timer past the deadline
OVERALL_TIMER_SLACK_MS == 25

\* longest provider list a run is started with
MaxProviders == 7

\* most requests of one run that get an HTTP response; the others run into
\* their abort timer
MaxResponses == 3

\* ids of BASE_IP_PROVIDERS, in catalog order
BASE_IP_PROVIDERS ==
  <<"ipify-v4", "ipify-v6", "ipify-v64", "ipify-generic", "ipsb-ip",
    "ipsb64-ip", "icanhazip-v4", "icanhazip-v6", "ifconfig-ip", "identme-ip",
    "checkip-amazon-ip", "seeip-ip", "ifconfigco-ip", "myexternalip-ip">>

Min(a, b) == IF a < b THEN a ELSE b

\* the providers of BASE_IP_PROVIDERS with format "text" (the targeted and
\* untargeted geolocation providers buildProviders adds are all "json")
TextProviderIds ==
  {"ipsb-ip", "ipsb64-ip", "icanhazip-v4", "icanhazip-v6", "ifconfig-ip",
   "identme-ip", "checkip-amazon-ip", "seeip-ip", "ifconfigco-ip",
   "myexternalip-ip"}

\* the characters of a text provider's id
IdChars ==
  [id \in TextProviderIds |->
     CASE id = "ipsb-ip" -> <<"i","p","s","b","-","i","p">>
       [] id = "ipsb64-ip" -> <<"i","p","s","b","6","4","-","i","p">>
       [] id = "icanhazip-v4" -> <<"i","c","a","n","h","a","z","i","p","-","v","4">>
       [] id = "icanhazip-v6" -> <<"i","c","a","n","h","a","z","i","p","-","v","6">>
       [] id = "ifconfig-ip" -> <<"i","f","c","o","n","f","i","g","-","i","p">>
       [] id = "identme-ip" -> <<"i","d","e","n","t","m","e","-","i","p">>
       [] id = "checkip-amazon-ip" -> <<"c","h","e","c","k","i","p","-","a","m","a","z","o","n","-","i","p">>
       [] id = "seeip-ip" -> <<"s","e","e","i","p","-","i","p">>
       [] id = "ifconfigco-ip" -> <<"i","f","c","o","n","f","i","g","c","o","-","i","p">>
       [] id = "myexternalip-ip" -> <<"m","y","e","x","t","e","r","n","a","l","i","p","-","i","p">>]

\* String.prototype.endsWith
EndsWith(s, suffix) ==
  /\ Len(s) >= Len(suffix)
  /\ SubSeq(s, Len(s) - Len(suffix) + 1, Len(s)) = suffix

normalizeIpCandidate(value) ==
  IF Falsy(value) THEN EmptyPartial
  ELSE IF detectIpFamily(value) = "IPv4" THEN [EmptyPartial EXCEPT !.ipv4 = value]
  ELSE IF detectIpFamily(value) = "IPv6" THEN [EmptyPartial EXCEPT !.ipv6 = value]
  ELSE EmptyPartial

parseProviderText(providerId, text) ==
  LET value == Trim(text)
  IN  IF value = <<>> THEN EmptyPartial
      ELSE IF EndsWith(IdChars[providerId], <<"-","i","p">>)
           THEN normalizeIpCandidate(value)
           ELSE EmptyPartial

VARIABLES
  pc,             \* "start": before the call launch() of line 501; "running" after
  providers,      \* options.providers, as the sequence of provider ids
  deadlineMs,
  now,            \* Date.now()
  merged,
  index,
  active,
  done,
  stop,
  attempted,
  failures,       \* the entries of the array, as a bag (their order is not kept)
  sourcesUsed,
  resolved,       \* the values resolve() was called with, in order
  inflight,       \* the fetchProvider promises not yet handled
  overallTimeout, \* "armed", "fired" or "cleared"
  interval,       \* "armed" or "cleared"
  incoming,       \* the observation of the last fold (mergeIntel's 2nd argument)
  folded,         \* ids of the providers whose observation was folded
  responses,      \* number of requests that got an HTTP response
  payload,        \* the response bodies GET has returned (none or one)
  body            \* the text last handed to parseProviderText

vars ==
  <<pc, providers, deadlineMs, now, merged, index, active, done, stop,
    attempted, failures, sourcesUsed, resolved, inflight, overallTimeout,
    interval, incoming, folded, responses, payload, body>>

\* observations a provider's parser may return
ObservationSamples ==
  { [EmptyPartial EXCEPT !.ipv4 = V4B, !.ipv6 = V6PaddedB],
    [EmptyPartial EXCEPT !.isp = Unknown, !.city = Null, !.country = Null],
    [EmptyPartial EXCEPT !.isp = Acme, !.city = BerlinPadded,
                         !.country = CodeDeLower, !.lat = Num(52), !.lon = Num(13)] }

\* seededData / seededSources pairs
HintLabel == "request-header:x-real-ip"

SeedSamples ==
  { [data |-> EmptyPartial, sources |-> {}],
    [data |-> [EmptyPartial EXCEPT !.ipv4 = V4PaddedA], sources |-> {HintLabel}],
    [data |-> [EmptyPartial EXCEPT !.ipv6 = V6A], sources |-> {HintLabel}],
    [data |-> [EmptyPartial EXCEPT !.ipv4 = V4PaddedA, !.ipv6 = V6A,
                                   !.country = CodeDeLower],
     sources |-> {HintLabel}],
    [data |-> [EmptyPartial EXCEPT !.ipv4 = V4PaddedA, !.ipv6 = V6A,
                                   !.isp = Beta],
     sources |-> {HintLabel}] }

\* failure reasons of a request that was issued
FailureReasons == {"http-500"}
AbortReason == "This operation was aborted"

Init ==
  /\ pc = "start"
  /\ \E n \in 0..MaxProviders : providers = SubSeq(BASE_IP_PROVIDERS, 1, n)
  /\ now = 0
  /\ deadlineMs = now + OVERALL_TIMEOUT_MS
  /\ attempted = <<>>
  /\ failures = EmptyBag
  /\ \E seed \in SeedSamples :
       /\ sourcesUsed = seed.sources
       /\ merged = mergeIntel(EMPTY_INTEL, seed.data)
       /\ incoming = seed.data
  /\ index = 0
  /\ active = 0
  /\ done = FALSE
  /\ stop = FALSE
  /\ resolved = <<>>
  /\ inflight = {}
  /\ overallTimeout = "armed"
  /\ interval = "armed"
  /\ folded = {}
  /\ responses = 0
  /\ payload = <<>>
  /\ body = <<>>

\* the finish condition without its test active === 0
ShouldFinish_ignoresActive(idx, act, stp, t) ==
  stp \/ idx >= Len(providers) \/ t >= deadlineMs

\* the finish condition without its disjunct index >= providers.length
ShouldFinish_ignoresQueueEnd(idx, act, stp, t) ==
  (stp \/ t >= deadlineMs) /\ act = 0

\* the condition of both finish() calls in launch, on the values read there
ShouldFinish(idx, act, stp, t) ==
  (stp \/ idx >= Len(providers) \/ t >= deadlineMs) /\ act = 0

\* the loop condition without its test active < CONCURRENCY_LIMIT
CanLaunch_noCap(idx, act, stp, t) ==
  ~stp /\ idx < Len(providers) /\ t < deadlineMs

\* the condition of launch's while loop (done is false there)
CanLaunch(idx, act, stp, t) ==
  ~stp /\ act < CONCURRENCY_LIMIT /\ idx < Len(providers) /\ t < deadlineMs

\* a launch that starts one provider at most
LoopCount_single(idx, act, stp, t) ==
  IF CanLaunch(idx, act, stp, t) THEN 1 ELSE 0

\* number of iterations the while loop makes when the clock does not move
RECURSIVE LoopCount(_, _, _, _)
LoopCount(idx, act, stp, t) ==
  IF CanLaunch(idx, act, stp, t)
  THEN 1 + LoopCount(idx + 1, act + 1, stp, t)
  ELSE 0

\* finish(): resolve with the current values; attempted and failures are
\* handed over as the arrays themselves, sourcesUsed as a copy
Finish(m, su) ==
  /\ done' = TRUE
  /\ resolved' = Append(resolved, [data |-> m, sourcesUsed |-> su])

NoFinish ==
  /\ done' = done
  /\ resolved' = resolved

\* a request bounded by the larger of the two time limits
NewFetch_largerLimit(id, t) ==
  LET remaining == deadlineMs - t
  IN  IF remaining <= 0
      THEN [id |-> id, timeoutAt |-> t, immediate |-> TRUE]
      ELSE [id |-> id,
            timeoutAt |-> t + (IF PROVIDER_TIMEOUT_MS > remaining
                               THEN PROVIDER_TIMEOUT_MS ELSE remaining),
            immediate |-> FALSE]

\* a request bounded by the per-provider timeout alone
NewFetch_providerTimeoutOnly(id, t) ==
  [id |-> id, timeoutAt |-> t + PROVIDER_TIMEOUT_MS, immediate |-> FALSE]

\* fetchProvider up to its first await: the request's abort time, or the
\* immediate result "overall-timeout" when no time remains
NewFetch(id, t) ==
  LET remaining == deadlineMs - t
  IN  IF remaining <= 0
      THEN [id |-> id, timeoutAt |-> t, immediate |-> TRUE]
      ELSE [id |-> id, timeoutAt |-> t + Min(PROVIDER_TIMEOUT_MS, remaining),
            immediate |-> FALSE]

\* a loop that does not advance through the list
Launched_repeatsFirst(idx, j) == [i \in 1..j |-> providers[idx + 1]]

\* the ids pushed to attempted by j iterations of the loop from index idx
Launched(idx, j) == [i \in 1..j |-> providers[idx + i]]

\* launch(), entered with the values act, stp, m, su the caller leaves and
\* the promises rest still pending.  The clock may pass the deadline while
\* the loop runs: crossed says so, j is the number of providers launched
\* and late says that the last of them read the clock after the deadline.
Launch(act, stp, m, su, rest) ==
  IF done
  THEN /\ NoFinish
       /\ UNCHANGED <<index, attempted, now>>
       /\ active' = act
       /\ inflight' = rest
  ELSE IF ShouldFinish(index, act, stp, now)
  THEN /\ Finish(m, su)
       /\ UNCHANGED <<index, attempted, now>>
       /\ active' = act
       /\ inflight' = rest
  ELSE \E crossed \in BOOLEAN, late \in BOOLEAN :
       \E j \in 0..LoopCount(index, act, stp, now) :
         /\ IF crossed
            THEN /\ LoopCount(index, act, stp, now) > 0
                 /\ late => j > 0
                 /\ now' = deadlineMs
            ELSE /\ j = LoopCount(index, act, stp, now)
                 /\ ~late
                 /\ now' = now
         /\ index' = index + j
         /\ active' = act + j
         /\ attempted' = attempted \o Launched(index, j)
         /\ inflight' = rest \cup
              {NewFetch(providers[index + i],
                        IF late /\ i = j THEN deadlineMs ELSE now) : i \in 1..j}
         /\ IF ShouldFinish(index', active', stp, now')
            THEN Finish(m, su)
            ELSE NoFinish

\* line 501: the first call of launch
Start ==
  /\ pc = "start"
  /\ pc' = "running"
  /\ Launch(active, stop, merged, sourcesUsed, inflight)
  /\ UNCHANGED <<providers, deadlineMs, merged, stop, failures, sourcesUsed,
                 overallTimeout, interval, incoming, folded, responses, payload, body>>

\* the comparison without its tests of isp, city, country, lat and lon
Changed_addressesOnly(before, after) ==
  \/ after.ipv4 # before.ipv4
  \/ after.ipv6 # before.ipv6

\* whether the fold changed any field (lines 467-475)
Changed(before, after) ==
  \/ after.ipv4 # before.ipv4
  \/ after.ipv6 # before.ipv6
  \/ after.isp # before.isp
  \/ after.city # before.city
  \/ after.country # before.country
  \/ after.lat # before.lat
  \/ after.lon # before.lon

\* a handler that records no failure
PushFailure_dropped(source, reason) == failures

\* failures.push({ source, reason })
PushFailure(source, reason) ==
  failures (+) SetToBag({[source |-> source, reason |-> reason]})

\* a fetch settles with a failure: then-handler lines 461-463, finally
CompleteFailure(f, reason) ==
  /\ pc = "running"
  /\ f \in inflight
  /\ failures' = PushFailure(f.id, reason)
  /\ Launch(active - 1, stop, merged, sourcesUsed, inflight \ {f})
  /\ UNCHANGED <<pc, providers, deadlineMs, merged, stop, sourcesUsed,
                 overallTimeout, interval, incoming, folded, payload, body>>

\* the request fails before its abort time (non-2xx status, transport error)
FetchFails(f, reason) ==
  /\ ~f.immediate
  /\ now < f.timeoutAt
  /\ responses < MaxResponses
  /\ responses' = responses + 1
  /\ CompleteFailure(f, reason)

\* the request is aborted by its timer
FetchAborted(f) ==
  /\ ~f.immediate
  /\ now >= f.timeoutAt
  /\ UNCHANGED responses
  /\ CompleteFailure(f, AbortReason)

\* fetchProvider returned "overall-timeout" without issuing a request
FetchOverallTimeout(f) ==
  /\ f.immediate
  /\ UNCHANGED responses
  /\ CompleteFailure(f, "overall-timeout")

\* a handler that folds into the record it read before other completions
\* were handled (the empty record), losing their updates
FetchSucceeds_staleRecord(f, partial) ==
  /\ pc = "running"
  /\ f \in inflight
  /\ ~f.immediate
  /\ now < f.timeoutAt
  /\ responses < MaxResponses
  /\ responses' = responses + 1
  /\ merged' = mergeIntel(EMPTY_INTEL, partial)
  /\ sourcesUsed' = IF Changed(merged, merged') THEN sourcesUsed \cup {f.id}
                     ELSE sourcesUsed
  /\ stop' = IF shouldStopEarly(merged') THEN TRUE ELSE stop
  /\ incoming' = partial
  /\ folded' = folded \cup {f.id}
  /\ Launch(active - 1, stop', merged', sourcesUsed', inflight \ {f})
  /\ UNCHANGED <<pc, providers, deadlineMs, failures, overallTimeout, interval,
                 payload, body>>

\* a fetch settles with an observation: then-handler lines 465-480, finally
FetchSucceeds(f, partial) ==
  /\ pc = "running"
  /\ f \in inflight
  /\ ~f.immediate
  /\ now < f.timeoutAt
  /\ responses < MaxResponses
  /\ responses' = responses + 1
  /\ merged' = mergeIntel(merged, partial)
  /\ sourcesUsed' = IF Changed(merged, merged') THEN sourcesUsed \cup {f.id}
                     ELSE sourcesUsed
  /\ stop' = IF shouldStopEarly(merged') THEN TRUE ELSE stop
  /\ incoming' = partial
  /\ folded' = folded \cup {f.id}
  /\ Launch(active - 1, stop', merged', sourcesUsed', inflight \ {f})
  /\ UNCHANGED <<pc, providers, deadlineMs, failures, overallTimeout, interval,
                 payload, body>>

\* a catch handler that is not followed by the finally handler
FetchThrows_withoutFinally(f) ==
  /\ pc = "running"
  /\ f \in inflight
  /\ ~f.immediate
  /\ now < f.timeoutAt
  /\ responses < MaxResponses
  /\ responses' = responses + 1
  /\ failures' = PushFailure(f.id, "internal-failure")
  /\ inflight' = inflight \ {f}
  /\ UNCHANGED <<pc, providers, deadlineMs, now, merged, index, active, done,
                 stop, attempted, sourcesUsed, resolved, overallTimeout,
                 interval, incoming, folded, payload, body>>

\* a fetch settles with an observation on which mergeIntel throws (line 466,
\* before merged is assigned): the catch handler records the failure, finally
FetchThrows(f) ==
  /\ ~f.immediate
  /\ now < f.timeoutAt
  /\ responses < MaxResponses
  /\ responses' = responses + 1
  /\ CompleteFailure(f, "internal-failure")

\* the overallTimeout callback (lines 496-499)
OverallTimeoutFires ==
  /\ pc = "running"
  /\ overallTimeout = "armed"
  /\ now >= deadlineMs + OVERALL_TIMER_SLACK_MS
  /\ overallTimeout' = "fired"
  /\ stop' = TRUE
  /\ IF active = 0 /\ ~done
     THEN Finish(merged, sourcesUsed)
     ELSE NoFinish
  /\ UNCHANGED <<pc, providers, deadlineMs, now, merged, index, active,
                 attempted, failures, sourcesUsed, inflight, interval,
                 incoming, folded, responses, payload, body>>

\* the setInterval callback once done is set (lines 503-508)
IntervalPoll ==
  /\ pc = "running"
  /\ interval = "armed"
  /\ done
  /\ interval' = "cleared"
  /\ overallTimeout' = IF overallTimeout = "armed" THEN "cleared" ELSE overallTimeout
  /\ UNCHANGED <<pc, providers, deadlineMs, now, merged, index, active, done,
                 stop, attempted, failures, sourcesUsed, resolved, inflight,
                 incoming, folded, responses, payload, body>>

\* GET after its await: the payload built from the resolved value; attempted
\* and failures are the arrays runAggregation handed over
Respond ==
  /\ pc = "running"
  /\ done
  /\ payload = <<>>
  /\ payload' = <<[success |-> hasAtLeastOneIp(resolved[1].data),
                   data |-> resolved[1].data,
                   sourcesUsed |-> resolved[1].sourcesUsed,
                   attempted |-> attempted,
                   failures |-> failures]>>
  /\ UNCHANGED <<pc, providers, deadlineMs, now, merged, index, active, done,
                 stop, attempted, failures, sourcesUsed, resolved, inflight,
                 overallTimeout, interval, incoming, folded, responses, body>>

\* times at which a pending timer is due
DueTimes ==
  {f.timeoutAt : f \in inflight}
  \cup (IF overallTimeout = "armed" THEN {deadlineMs + OVERALL_TIMER_SLACK_MS} ELSE {})

\* the clock advances, to the next due timer at most
Tick ==
  /\ pc = "running"
  /\ \A f \in inflight : ~f.immediate
  /\ \E t \in DueTimes :
       /\ t > now
       /\ \A d \in DueTimes : t <= d
       /\ t <= deadlineMs + OVERALL_TIMER_SLACK_MS
       /\ now' = t
  /\ UNCHANGED <<pc, providers, deadlineMs, merged, index, active, done, stop,
                 attempted, failures, sourcesUsed, resolved, inflight,
                 overallTimeout, interval, incoming, folded, responses, payload, body>>

Next ==
  \/ Start
  \/ \E f \in inflight, p \in ObservationSamples : FetchSucceeds(f, p)
  \/ \E f \in inflight, r \in FailureReasons : FetchFails(f, r)
  \/ \E f \in inflight : FetchAborted(f)
  \/ \E f \in inflight : FetchOverallTimeout(f)
  \/ \E f \in inflight : FetchThrows(f)
  \/ OverallTimeoutFires
  \/ IntervalPoll
  \/ Respond
  \/ Tick

Spec == Init /\ [][Next]_vars

\* the event loop runs what is due: the first launch, a timer that expired,
\* an immediate result; and the clock advances
FairSpec ==
  /\ Spec
  /\ WF_vars(Start)
  /\ WF_vars(Tick)
  /\ WF_vars(\E f \in inflight : FetchAborted(f))
  /\ WF_vars(\E f \in inflight : FetchOverallTimeout(f))

(***************************************************************************)
(* Claims about runAggregation (checked under Spec, C3 under FairSpec)     *)
(***************************************************************************)

\* C1: the number of fetches in flight is between 0 and CONCURRENCY_LIMIT
\* in every reachable state.
C1_ActiveWithinLimit ==
  /\ active >= 0
  /\ active <= CONCURRENCY_LIMIT
  /\ active = Cardinality(inflight)

\* the limit is reached while providers are still waiting
C1_Witness ==
  /\ active = CONCURRENCY_LIMIT
  /\ index < Len(providers)

\* C2: resolve is called once, in a state with no fetch in flight; after it
\* no handler changes the record, attempted, failures or sourcesUsed, and a
\* later finish (the timer's) does nothing.
C2_FinalizedOnce ==
  /\ [](/\ Len(resolved) <= 1
        /\ (done <=> Len(resolved) = 1)
        /\ (done => active = 0 /\ inflight = {}))
  /\ [][ ~done /\ done' =>
           /\ active' = 0
           /\ resolved' = <<[data |-> merged', sourcesUsed |-> sourcesUsed']>> ]_vars
  /\ [][ done =>
           /\ done'
           /\ resolved' = resolved
           /\ merged' = merged
           /\ attempted' = attempted
           /\ failures' = failures
           /\ sourcesUsed' = sourcesUsed ]_vars

\* the timer fired after the run had finalized with fetches attempted
C2_Witness ==
  /\ done
  /\ overallTimeout = "fired"
  /\ attempted # <<>>
  /\ Len(resolved) = 1

\* C3: when every fetch settles the run finalizes, and while it is pending
\* after the first launch some fetch is in flight: the handler that settles
\* the last fetch with the queue exhausted, stop set or the deadline passed
\* is the one that finalizes.
C3_Finalizes ==
  /\ <>done
  /\ [](pc = "running" /\ ~done => active > 0)

\* a run finalized on the stop flag with providers still unlaunched
C3_Witness ==
  /\ done
  /\ stop
  /\ overallTimeout = "armed"
  /\ index < Len(providers)

\* the sufficiency predicate as the claim words it
Sufficient(data) ==
  /\ data.ipv4 # Null
  /\ data.ipv6 # Null
  /\ \/ isMeaningfulText(data.isp)
     \/ isMeaningfulText(data.country)

\* C4: once a completion has folded and the record is sufficient, or once
\* the deadline has elapsed, attempted no longer grows; the stop flag is set
\* by nothing else (but the timer), and a fold that leaves the record short
\* of sufficient, before the deadline and with providers waiting, is
\* followed by the launch of the next provider.
C4_StopsLaunching ==
  /\ [][ (folded # {} /\ Sufficient(merged)) \/ now >= deadlineMs
           => attempted' = attempted ]_vars
  /\ [](stop /\ overallTimeout # "fired" => Sufficient(merged))
  /\ [][ /\ folded' # folded
         /\ ~Sufficient(merged')
         /\ index < Len(providers)
         /\ now' < deadlineMs
         => Len(attempted') > Len(attempted) ]_vars

\* the only completion so far folded both addresses and no ISP or country,
\* and the seventh provider was launched
C4_Witness ==
  /\ responses = 1
  /\ folded # {}
  /\ failures = EmptyBag
  /\ merged.ipv4 # Null
  /\ merged.ipv6 # Null
  /\ ~Sufficient(merged)
  /\ Len(attempted) = CONCURRENCY_LIMIT + 1

\* C11: sourcesUsed starts as the seed's labels and grows by a provider's
\* id exactly in the step that folds that provider's observation and leaves
\* the record different from what it was; so at finalization it holds the
\* seed labels and ids of providers that were attempted and folded, and no
\* id of a provider with a failures entry.
C11_SourcesUsed ==
  /\ [][ sourcesUsed' =
           IF folded' # folded /\ merged' # merged
           THEN sourcesUsed \cup (folded' \ folded)
           ELSE sourcesUsed ]_vars
  /\ [](/\ sourcesUsed \ {HintLabel} \subseteq folded
        /\ folded \subseteq {attempted[i] : i \in 1..Len(attempted)}
        /\ \A x \in BagToSet(failures) : x.source \notin sourcesUsed
        /\ (done => resolved[1].sourcesUsed = sourcesUsed))

\* a finalized run in which one provider's fold changed the record, one
\* provider's fold changed nothing and one provider failed
C11_Witness ==
  /\ done
  /\ HintLabel \in sourcesUsed
  /\ Cardinality(sourcesUsed) = 2
  /\ Cardinality(folded) = 2
  /\ failures # EmptyBag

\* C12: failures never has more entries than attempted; at finalization
\* every attempted provider has one outcome, a single failures entry or a
\* fold, and not both; and when all attempted providers failed in a run
\* without seed, failures is as long as attempted, the record has no
\* address and the response says success = false.
C12_OneOutcomeEach ==
  /\ BagCardinality(failures) <= Len(attempted)
  /\ \A x \in BagToSet(failures) :
       /\ CopiesIn(x, failures) = 1
       /\ x.source \notin folded
       /\ \E i \in 1..Len(attempted) : attempted[i] = x.source
       /\ \A y \in BagToSet(failures) : y.source = x.source => y = x
  /\ (done => BagCardinality(failures) + Cardinality(folded) = Len(attempted))
  /\ (done /\ folded = {} /\ sourcesUsed = {} =>
        /\ BagCardinality(failures) = Len(attempted)
        /\ merged.ipv4 = Null
        /\ merged.ipv6 = Null
        /\ (payload # <<>> =>
              /\ ~payload[1].success
              /\ payload[1].data.ipv4 = Null
              /\ payload[1].data.ipv6 = Null
              /\ BagCardinality(payload[1].failures) = Len(payload[1].attempted)))

\* the response of a run without seed in which all providers failed,
\* by status, by abort and by a throwing handler
C12_Witness ==
  /\ payload # <<>>
  /\ sourcesUsed = {}
  /\ folded = {}
  /\ Len(attempted) > CONCURRENCY_LIMIT
  /\ BagCardinality(failures) = Len(attempted)
  /\ \E x \in BagToSet(failures) : x.reason = "internal-failure"
  /\ \E x \in BagToSet(failures) : x.reason = AbortReason
  /\ \E x \in BagToSet(failures) : x.reason \in FailureReasons

\* C13: the response carries the final record, and its success flag is true
\* exactly when that record has a non-null ipv4 or a non-null ipv6, whatever
\* failures holds; a finalized run always gets its response (GET has no
\* failing path after the await).
C13_SuccessIffAddress ==
  /\ (payload # <<>> =>
        /\ done
        /\ payload[1].data = merged
        /\ payload[1].failures = failures
        /\ (payload[1].success <=>
              (payload[1].data.ipv4 # Null \/ payload[1].data.ipv6 # Null)))
  /\ (done /\ payload = <<>> => ENABLED Respond)

\* a successful response whose only address is the seeded IPv6 hint, after
\* every provider failed
C13_Witness ==
  /\ payload # <<>>
  /\ payload[1].success
  /\ payload[1].data.ipv4 = Null
  /\ payload[1].data.ipv6 # Null
  /\ Len(attempted) > CONCURRENCY_LIMIT
  /\ BagCardinality(payload[1].failures) = Len(attempted)

\* reasons recorded for a fetch cut off by a deadline: the abort error's
\* message and fetchProvider's own tag
TimeoutReasons == {AbortReason, "overall-timeout"}

\* C14: a fetch still in flight when its time is up (the provider timeout
\* or the overall deadline, whichever comes first, or no time left at all)
\* settles as one failures entry with a timeout reason and changes neither
\* the record nor sourcesUsed; no fetch is in flight after the deadline, so
\* the run is finalized once the clock is past it, and at the latest when
\* the overall timer has run.
C14_DeadlineExcludesSlowFetch ==
  /\ [][ \A f \in inflight :
           (f \notin inflight' /\ (f.immediate \/ now >= f.timeoutAt)) =>
             /\ merged' = merged
             /\ sourcesUsed' = sourcesUsed
             /\ folded' = folded
             /\ \E r \in TimeoutReasons :
                  failures' = failures (+) SetToBag({[source |-> f.id, reason |-> r]}) ]_vars
  /\ [](\A x \in BagToSet(failures) :
          x.reason \in TimeoutReasons =>
            x.source \notin sourcesUsed /\ x.source \notin folded)
  /\ [](now > deadlineMs => inflight = {} /\ done)
  /\ [](overallTimeout = "fired" => done)

\* a finalized run with a fetch aborted by its timer, a fetch refused for
\* lack of time and a folded observation, at the deadline
C14_Witness ==
  /\ done
  /\ now = deadlineMs
  /\ folded # {}
  /\ \E x \in BagToSet(failures) : x.reason = AbortReason
  /\ \E x \in BagToSet(failures) : x.reason = "overall-timeout"

\* the answer of the geolocation provider in the scenario
GeoObservation ==
  [EmptyPartial EXCEPT !.isp = Acme, !.city = BerlinPadded,
                       !.country = CodeDeLower, !.lat = Num(52), !.lon = Num(13)]

\* C15: in a run seeded with the IPv4 hint alone in which one provider has
\* succeeded, with city, the country code of Germany and an ISP, the record
\* has the seeded ipv4, country "Germany", the provider's ISP and city, and
\* sourcesUsed holds the hint's label and that provider's id; so does the
\* resolved result when the run has finalized in that state.
C15_HintThenGeo ==
  ( /\ HintLabel \in sourcesUsed
    /\ Cardinality(folded) = 1
    /\ incoming = GeoObservation
    /\ merged.ipv6 = Null )
  =>
    /\ merged.ipv4 = <<"1",".","2",".","3",".","4">>
    /\ merged.country = <<"G","e","r","m","a","n","y">>
    /\ merged.isp = <<"A","c","m","e">>
    /\ merged.city = <<"B","e","r","l","i","n">>
    /\ sourcesUsed = {HintLabel} \cup folded
    /\ (done => resolved[1] = [data |-> merged, sourcesUsed |-> sourcesUsed])

\* the run has finalized with that one success and failures besides
C15_Witness ==
  /\ done
  /\ HintLabel \in sourcesUsed
  /\ Cardinality(folded) = 1
  /\ incoming = GeoObservation
  /\ merged.ipv6 = Null
  /\ failures # EmptyBag

C18_AttemptedIsPrefix ==
  /\ [](/\ index = Len(attempted)
        /\ index <= Len(providers)
        /\ attempted = SubSeq(providers, 1, index)
        /\ \A i, k \in 1..Len(attempted) : attempted[i] = attempted[k] => i = k)
  /\ [][ /\ Len(attempted') >= Len(attempted)
         /\ SubSeq(attempted', 1, Len(attempted)) = attempted ]_vars

\* the second provider's observation was folded and another provider failed
\* while the first was still in flight, and the list was launched to its end
C18_Witness ==
  /\ Len(providers) > CONCURRENCY_LIMIT
  /\ index = Len(providers)
  /\ \E f \in inflight : f.id = providers[1]
  /\ providers[2] \in folded
  /\ failures # EmptyBag

\* the failures entries with reason "internal-failure"
InternalFailures == {x \in BagToSet(failures) : x.reason = "internal-failure"}

\* C20: the step in which a handler's exception is recorded adds that one
\* entry for the provider, leaves record, sourcesUsed and stop as they were,
\* takes the fetch out of the in-flight count, launches the next provider
\* when one is waiting and launching is still allowed, and finalizes with
\* the unchanged record when it was the last fetch; and a run with such an
\* entry finalizes.
C20_HandlerExceptionAbsorbed ==
  /\ [][ InternalFailures' # InternalFailures =>
           \E f \in inflight :
             /\ f \notin inflight'
             /\ failures' = failures (+) SetToBag({[source |-> f.id,
                                                    reason |-> "internal-failure"]})
             /\ CopiesIn([source |-> f.id, reason |-> "internal-failure"], failures') = 1
             /\ merged' = merged
             /\ sourcesUsed' = sourcesUsed
             /\ stop' = stop
             /\ folded' = folded
             /\ active' = active - 1 + (Len(attempted') - Len(attempted))
             /\ active' = Cardinality(inflight')
             /\ (~stop /\ index < Len(providers) /\ now' < deadlineMs
                   => Len(attempted') > Len(attempted))
             /\ (done' => resolved' = <<[data |-> merged, sourcesUsed |-> sourcesUsed]>>) ]_vars
  /\ (InternalFailures # {} ~> done)

\* a run finalized by the handler that threw, and one in which the queue
\* was refilled after a throw
C20_Witness ==
  /\ done
  /\ InternalFailures # {}
  /\ Len(attempted) > CONCURRENCY_LIMIT
  /\ folded # {}

\* C21: the record starts as the fold of the seed into EMPTY_INTEL; every
\* completion that folds replaces it, in that one step, by mergeIntel of the
\* record as the previous step left it and the completion's observation,
\* and no other step changes it.  By induction over the steps the record is
\* the left fold of mergeIntel over the seed and the observations in
\* completion order, and the resolved record is that fold.
C21_SequentialFold ==
  /\ [](pc = "start" => merged = mergeIntel(EMPTY_INTEL, incoming) /\ folded = {})
  /\ [][ merged' = IF folded' # folded THEN mergeIntel(merged, incoming')
                   ELSE merged ]_vars
  /\ [][ folded \subseteq folded' /\ Cardinality(folded') <= Cardinality(folded) + 1 ]_vars
  /\ [](done => resolved[1].data = merged)

\* three providers launched together completed one after the other, and
\* the record holds what the first and what the last of them contributed
C21_Witness ==
  /\ done
  /\ Cardinality(folded) = Cardinality(ObservationSamples)
  /\ merged.ipv4 = V4B
  /\ merged.ipv6 = Trim(V6PaddedB)
  /\ merged.isp = Acme
  /\ merged.country # Null
  /\ incoming.isp = Unknown

\* length of the provider list of the runs that refill the queue twice
MaxQueued == 8

\* a run over a list longer than CONCURRENCY_LIMIT + 1, seeded as GET seeds
\* it: with nothing, or with one hinted address
LongQueueInit ==
  /\ pc = "start"
  /\ providers = SubSeq(BASE_IP_PROVIDERS, 1, MaxQueued)
  /\ now = 0
  /\ deadlineMs = now + OVERALL_TIMEOUT_MS
  /\ attempted = <<>>
  /\ failures = EmptyBag
  /\ \E seed \in {x \in SeedSamples : ~Sufficient(mergeIntel(EMPTY_INTEL, x.data))} :
       /\ sourcesUsed = seed.sources
       /\ merged = mergeIntel(EMPTY_INTEL, seed.data)
       /\ incoming = seed.data
  /\ index = 0
  /\ active = 0
  /\ done = FALSE
  /\ stop = FALSE
  /\ resolved = <<>>
  /\ inflight = {}
  /\ overallTimeout = "armed"
  /\ interval = "armed"
  /\ folded = {}
  /\ responses = 0
  /\ payload = <<>>
  /\ body = <<>>

LongQueueSpec == LongQueueInit /\ [][Next]_vars

\* C22: after the first launch, a run that is not finalized, with the stop
\* flag unset, the deadline not reached and providers not yet launched, has
\* exactly CONCURRENCY_LIMIT fetches in flight; so fewer are in flight only
\* with the queue exhausted, the stop flag set or the deadline reached.
C22_WorkConserving ==
  (pc = "running" /\ ~done /\ ~stop /\ now < deadlineMs /\ index < Len(providers))
    => (active = CONCURRENCY_LIMIT /\ Cardinality(inflight) = CONCURRENCY_LIMIT)

\* a slot freed by a completion was refilled and a provider still waits
C22_Witness ==
  /\ pc = "running"
  /\ ~done
  /\ ~stop
  /\ now < deadlineMs
  /\ index < Len(providers)
  /\ index > CONCURRENCY_LIMIT
  /\ active = CONCURRENCY_LIMIT

\* C23: a record that satisfies the sufficiency predicate satisfies it
\* after every step, folds included; the stop flag is never cleared, and
\* before the overall timer fires it is set only with a sufficient record;
\* so a run that finalizes before the deadline with providers unlaunched
\* has the stop flag set and resolves with a sufficient record.
C23_SufficiencyStable ==
  /\ [][ Sufficient(merged) => Sufficient(merged') ]_vars
  /\ [][ stop => stop' ]_vars
  /\ [](stop /\ now < deadlineMs => Sufficient(merged))
  /\ [][ ~done /\ done' /\ index' < Len(providers) /\ now' < deadlineMs =>
           /\ stop'
           /\ Sufficient(merged')
           /\ resolved'[1].data = merged' ]_vars

\* a run stopped before the deadline with providers unlaunched; its last
\* fold, of an observation with a placeholder ISP, came after the fold that
\* set the stop flag, into a record sufficient by its ISP alone
C23_Witness ==
  /\ done
  /\ stop
  /\ index < Len(providers)
  /\ now < deadlineMs
  /\ Cardinality(folded) > 1
  /\ incoming.isp = Unknown
  /\ merged.country = Null
  /\ Sufficient(merged)

(***************************************************************************)
(* Folding observations into a record, from EMPTY_INTEL                    *)
(* (page.tsx folds the settled results this way; runAggregation folds      *)
(* them one completion at a time)                                          *)
(***************************************************************************)
MergeInit ==
  /\ pc = "start"
  /\ providers = <<>>
  /\ now = 0
  /\ deadlineMs = now + OVERALL_TIMEOUT_MS
  /\ attempted = <<>>
  /\ failures = EmptyBag
  /\ sourcesUsed = {}
  /\ merged = EMPTY_INTEL
  /\ incoming = EmptyPartial
  /\ index = 0
  /\ active = 0
  /\ done = FALSE
  /\ stop = FALSE
  /\ resolved = <<>>
  /\ inflight = {}
  /\ overallTimeout = "armed"
  /\ interval = "armed"
  /\ folded = {}
  /\ responses = 0
  /\ payload = <<>>
  /\ body = <<>>

Fold(partial) ==
  /\ merged' = mergeIntel(merged, partial)
  /\ incoming' = partial
  /\ UNCHANGED <<pc, providers, deadlineMs, now, index, active, done, stop,
                 attempted, failures, sourcesUsed, resolved, inflight,
                 overallTimeout, interval, folded, responses, payload, body>>

MergeNext == \E partial \in PartialSamples : Fold(partial)

MergeSpec == MergeInit /\ [][MergeNext]_vars

(***************************************************************************)
(* Claims about the merge policy (checked under MergeSpec)                 *)
(***************************************************************************)

\* C5: a fold never replaces a populated ipv4 or ipv6 by another value and
\* never nulls or replaces a non-null city or country (nor a set coordinate);
\* isp is the only field whose populated value a fold may replace.
C5_PopulatedFieldsKept ==
  [][ /\ (merged.ipv4 # Null => merged'.ipv4 = merged.ipv4)
      /\ (merged.ipv6 # Null => merged'.ipv6 = merged.ipv6)
      /\ (merged.city # Null => merged'.city = merged.city)
      /\ (merged.country # Null => merged'.country = merged.country)
      /\ (merged.lat # NullNum => merged'.lat = merged.lat)
      /\ (merged.lon # NullNum => merged'.lon = merged.lon) ]_vars

\* an observation with another valid IPv4 and another city was folded into a
\* record that had both, and an isp was replaced by a longer one
C5_Witness ==
  /\ merged.ipv4 # Null
  /\ detectIpFamily(incoming.ipv4) = "IPv4"
  /\ Trim(incoming.ipv4) # merged.ipv4
  /\ merged.city # Null
  /\ isMeaningfulText(incoming.city)
  /\ Trim(incoming.city) # merged.city

\* C6: mergeIntel is idempotent: folding the same observation again leaves
\* the record as the first fold left it, field by field.
C6_Idempotent == mergeIntel(merged, incoming) = merged

\* an untrimmed placeholder isp was folded, and a one-sided coordinate pair
C6_Witness ==
  \/ /\ incoming.isp = NAPadded
     /\ merged.isp = Trim(NAPadded)
  \/ /\ incoming.lat = Num(52)
     /\ incoming.lon = NullNum
     /\ merged.lat = NullNum

\* a text field of a record: null, or non-empty, trimmed and no placeholder
MeaningfulOrNull(value) ==
  \/ value = Null
  \/ /\ value # <<>>
     /\ Trim(value) = value
     /\ ToLowerCase(value) \notin GENERIC_TEXT_VALUES

\* C7: in every record reached by folds from EMPTY_INTEL, isp, city and
\* country are null or a non-empty trimmed string that is no placeholder.
C7_TextFieldsMeaningful ==
  /\ MeaningfulOrNull(merged.isp)
  /\ MeaningfulOrNull(merged.city)
  /\ MeaningfulOrNull(merged.country)

\* C8: in every record reached by folds from EMPTY_INTEL, ipv4 is null or
\* classified IPv4 and ipv6 is null or classified IPv6, and a fold whose
\* observation carries under a key a value of another family (or no address)
\* leaves that field as it was.
C8_AddressFamilies ==
  /\ [](/\ (merged.ipv4 = Null \/ detectIpFamily(merged.ipv4) = "IPv4")
        /\ (merged.ipv6 = Null \/ detectIpFamily(merged.ipv6) = "IPv6"))
  /\ [][ /\ (detectIpFamily(incoming'.ipv4) # "IPv4" => merged'.ipv4 = merged.ipv4)
         /\ (detectIpFamily(incoming'.ipv6) # "IPv6" => merged'.ipv6 = merged.ipv6) ]_vars

\* an IPv6 literal reported under ipv4 was folded into a record without one
C8_Witness ==
  /\ detectIpFamily(incoming.ipv4) = "IPv6"
  /\ merged.ipv4 = Null
  /\ merged.ipv6 = Null

\* C9: lat and lon are both null or both set; a fold changes them only from
\* both null to the two finite coordinates of the one observation folded.
C9_CoordinatePair ==
  /\ []((merged.lat = NullNum) <=> (merged.lon = NullNum))
  /\ [][ (merged'.lat # merged.lat \/ merged'.lon # merged.lon) =>
           /\ merged.lat = NullNum
           /\ merged.lon = NullNum
           /\ incoming'.lat.k = "number"
           /\ incoming'.lon.k = "number"
           /\ merged'.lat = incoming'.lat
           /\ merged'.lon = incoming'.lon ]_vars

\* an observation with one finite coordinate was folded into a record
\* without coordinates
C9_Witness ==
  /\ incoming.lat = Num(52)
  /\ incoming.lon \in {NaN, NullNum}
  /\ merged.lat = NullNum
  /\ merged.lon = NullNum

\* the tie-break as the claim words it, for current c and incoming n; the
\* name chosen is returned trimmed
IspRule(c, n) ==
  LET cOk == isMeaningfulText(c)
      nOk == isMeaningfulText(n)
      nonEmpty(x) == x # Null /\ Trim(x) # <<>>
  IN  CASE nOk /\ ~cOk -> Trim(n)
        [] cOk /\ ~nOk -> c
        [] cOk /\ nOk -> IF Len(Trim(n)) > Len(Trim(c)) THEN Trim(n) ELSE c
        [] OTHER -> IF nonEmpty(c) THEN c
                    ELSE IF nonEmpty(n) THEN Trim(n)
                    ELSE Null

\* C10: every fold sets isp by the tie-break rule: the incoming name if only
\* it is meaningful, the current one if only it is, of two meaningful names
\* the strictly longer (a tie keeps the current), and of two names that are
\* not meaningful the current if non-empty, else the incoming if non-empty,
\* else null.
C10_IspTieBreak ==
  [][ merged'.isp = IspRule(merged.isp, OrNull(incoming'.isp)) ]_vars

\* a meaningful name of the same length was folded over a meaningful one
C10_Witness ==
  /\ merged.isp = Acme
  /\ incoming.isp = Beta

(***************************************************************************)
(* parseProviderText on the bodies of the text providers                   *)
(***************************************************************************)
HtmlBody == <<"<","h","t","m","l",">">>

\* response bodies: addresses with and without surrounding white space, and
\* text that is no address
BodySamples ==
  {V4PaddedA, V4B, V6A, V6PaddedB, V4Octet256, V4ThreeParts, V6TripleColon,
   V6NineGroups, V6NonHex, HtmlBody, Acme, Blank, <<>>}

ParseInit == MergeInit

\* line 397-398 for a text provider: parse the body read
ParseText(id, text) ==
  /\ providers' = <<id>>
  /\ body' = text
  /\ incoming' = parseProviderText(id, text)
  /\ UNCHANGED <<pc, deadlineMs, now, merged, index, active, done, stop,
                 attempted, failures, sourcesUsed, resolved, inflight,
                 overallTimeout, interval, folded, responses, payload>>

ParseNext == \E id \in TextProviderIds, text \in BodySamples : ParseText(id, text)

ParseSpec == ParseInit /\ [][ParseNext]_vars

\* C16: for each text provider, a body that trimmed is a valid IPv4 or IPv6
\* literal gives the observation with just that address under its family,
\* and any other body gives the empty observation.
C16_TextBodies ==
  providers # <<>> =>
    incoming =
      CASE detectIpFamily(Trim(body)) = "IPv4" -> [EmptyPartial EXCEPT !.ipv4 = Trim(body)]
        [] detectIpFamily(Trim(body)) = "IPv6" -> [EmptyPartial EXCEPT !.ipv6 = Trim(body)]
        [] OTHER -> EmptyPartial

(***************************************************************************)
(* fetchProvider called once, at any time before or after the deadline     *)
(***************************************************************************)
\* value of Date.now() at the call, by distance from the deadline
CallTimes ==
  { 0, 3000,
    OVERALL_TIMEOUT_MS - PROVIDER_TIMEOUT_MS - 1,
    OVERALL_TIMEOUT_MS - PROVIDER_TIMEOUT_MS + 1,
    8000,
    OVERALL_TIMEOUT_MS - 1,
    OVERALL_TIMEOUT_MS,
    OVERALL_TIMEOUT_MS + 1,
    12000 }

\* steps by which the clock advances while the request is under way
ClockSteps == {1, 1000}

FetchInit ==
  /\ pc = "start"
  /\ \E id \in TextProviderIds : providers = <<id>>
  /\ now \in CallTimes
  /\ deadlineMs = OVERALL_TIMEOUT_MS
  /\ attempted = <<>>
  /\ failures = EmptyBag
  /\ sourcesUsed = {}
  /\ merged = EMPTY_INTEL
  /\ incoming = EmptyPartial
  /\ index = 0
  /\ active = 0
  /\ done = FALSE
  /\ stop = FALSE
  /\ resolved = <<>>
  /\ inflight = {}
  /\ overallTimeout = "armed"
  /\ interval = "armed"
  /\ folded = {}
  /\ responses = 0
  /\ payload = <<>>
  /\ body = <<>>

\* fetchProvider(provider, deadlineMs) up to its first await
FetchCall ==
  /\ pc = "start"
  /\ pc' = "running"
  /\ inflight' = {NewFetch(providers[1], now)}
  /\ UNCHANGED <<providers, deadlineMs, now, merged, index, active, done, stop,
                 attempted, failures, sourcesUsed, resolved, overallTimeout,
                 interval, incoming, folded, responses, payload, body>>

\* the clock advances while the request is under way, up to its abort time
FetchTick ==
  /\ pc = "running"
  /\ \E f \in inflight, d \in ClockSteps :
       /\ ~f.immediate
       /\ now < f.timeoutAt
       /\ now' = Min(now + d, f.timeoutAt)
  /\ UNCHANGED <<pc, providers, deadlineMs, merged, index, active, done, stop,
                 attempted, failures, sourcesUsed, resolved, inflight,
                 overallTimeout, interval, incoming, folded, responses, payload,
                 body>>

\* the promise settles with a failure: no time remaining (line 380), a
\* status that is not ok (line 392), or the abort caught (lines 399-401)
FetchReturnsFailure ==
  /\ pc = "running"
  /\ pc' = "returned"
  /\ \E f \in inflight :
       /\ \E reason \in FailureReasons \cup {AbortReason, "overall-timeout"} :
            /\ reason = "overall-timeout" <=> f.immediate
            /\ reason = AbortReason <=> (~f.immediate /\ now >= f.timeoutAt)
            /\ failures' = PushFailure(f.id, reason)
       /\ inflight' = inflight \ {f}
  /\ incoming' = EmptyPartial
  /\ UNCHANGED <<providers, deadlineMs, now, merged, index, active, done, stop,
                 attempted, sourcesUsed, resolved, overallTimeout, interval,
                 folded, responses, payload, body>>

\* the promise settles with the parsed body, read before the abort time
FetchReturnsPartial(text) ==
  /\ pc = "running"
  /\ pc' = "returned"
  /\ \E f \in inflight :
       /\ ~f.immediate
       /\ now < f.timeoutAt
       /\ body' = text
       /\ incoming' = parseProviderText(f.id, text)
       /\ inflight' = inflight \ {f}
  /\ UNCHANGED <<providers, deadlineMs, now, merged, index, active, done, stop,
                 attempted, failures, sourcesUsed, resolved, overallTimeout,
                 interval, folded, responses, payload>>

FetchNext ==
  \/ FetchCall
  \/ FetchTick
  \/ FetchReturnsFailure
  \/ \E text \in {V4B, HtmlBody} : FetchReturnsPartial(text)

FetchSpec == FetchInit /\ [][FetchNext]_vars

\* C19: a call with no time remaining returns "overall-timeout" and an
\* empty observation without a request; any other call issues a request
\* whose abort time is the call time plus the smaller of
\* PROVIDER_TIMEOUT_MS and the time remaining, hence at or before the
\* deadline, and the request is never in flight after its abort time.
C19_FetchBounded ==
  /\ [][ pc = "start" /\ pc' = "running" =>
           \E f \in inflight' :
             /\ inflight' = {f}
             /\ f.immediate <=> now >= deadlineMs
             /\ ~f.immediate =>
                  /\ f.timeoutAt - now =
                       (IF PROVIDER_TIMEOUT_MS <= deadlineMs - now
                        THEN PROVIDER_TIMEOUT_MS ELSE deadlineMs - now)
                  /\ f.timeoutAt <= deadlineMs ]_vars
  /\ [][ \A f \in inflight :
           f.immediate =>
             /\ now' = now
             /\ (pc' = "returned" =>
                   /\ incoming' = EmptyPartial
                   /\ failures' = SetToBag({[source |-> f.id,
                                             reason |-> "overall-timeout"]})) ]_vars
  /\ [](\A f \in inflight : ~f.immediate => now <= f.timeoutAt /\ now <= deadlineMs)
  /\ [](\A x \in BagToSet(failures) : x.reason = "overall-timeout" => now >= deadlineMs)

\* a request issued less than PROVIDER_TIMEOUT_MS before the deadline was
\* aborted at the deadline
C19_Witness ==
  /\ pc = "returned"
  /\ now = deadlineMs
  /\ \E x \in BagToSet(failures) : x.reason = AbortReason

=============================================================================
